---- MODULE Spec2Model ----
(***************************************************************************)
(* Client-side controller of the batch geocoding workflow                  *)
(* (static/script.js): upload, column mapping, launch, progress polling,   *)
(* stop and completion.  Every async handler is split at its await: one    *)
(* action issues the request, one action runs the continuation when the    *)
(* response (or the transport error) arrives.  Between awaits a handler    *)
(* runs atomically (single-threaded event loop).                           *)
(***************************************************************************)
EXTENDS Integers, Sequences, FiniteSets, TLC

\* ------------------------------------------------------------------ bounds
MaxSessions == 1    \* uploads the server accepts in Spec and SpecMapping
MaxTimers == 2      \* interval timers live at one time
MaxInFlight == 2    \* requests in flight at one time
MaxLogOver == 1     \* how far the longest server log exceeds the render cap

\* ------------------------------------------------------- program constants
NoSession == 0      \* currentSessionId = null
NoTimer == 0        \* processingInterval = null
LogCap == 50        \* logEntries.slice(-50)

\* Session ids the server can hand out; SpecReupload uses all of them.
Sessions == 1..(MaxSessions + 1)
Timers == 1..MaxTimers

VARIABLES
    currentSessionId,   \* NoSession or a session id
    processingInterval, \* NoTimer or the handle returned by the last setInterval
    isProcessing,
    liveTimers,         \* handles created by setInterval and not yet cleared
    sessionsIssued,     \* number of session ids the server has handed out
    uploadPending,      \* number of /upload requests in flight
    processPending,     \* [Sessions -> Nat]: /process requests in flight, by session_id
    stopPending,        \* number of /stop/{id} requests in flight
    statusPending,      \* [Sessions -> Nat]: /status/{id} requests in flight
    \* DOM
    processBtn, stopBtn,                 \* style.display
    configSection, progressSection, resultsSection, downloadSection, \* style.display
    uploadAreaText,
    columnOptions,      \* the options of the four column selects (a header list)
    addressColumn, cityColumn, stateColumn, zipColumn,  \* select.value
    progressFill,       \* style.width: <<p, "%">>, or Markup while never set
    progressText,
    processedCount, successCount, failedCount, successRate,
    resultsLog,         \* the rendered log entries
    \* output of the last handler step
    shown,              \* the message it alert()ed or asked the browser to
                        \* confirm, or "none"
    logged,             \* TRUE iff it wrote to console.error
    \* history
    pollerState,        \* "Idle", "Running", "Stopped", "Completed"
    launchedSids,       \* session ids whose /process request was answered 2xx
    completedSids       \* session ids whose /status answered processing_complete

ctl == <<currentSessionId, processingInterval, isProcessing, liveTimers>>
net == <<sessionsIssued, uploadPending, processPending, stopPending, statusPending>>
buttons == <<processBtn, stopBtn>>
sections == <<configSection, progressSection, resultsSection, downloadSection>>
selects == <<uploadAreaText, columnOptions, addressColumn, cityColumn, stateColumn, zipColumn>>
counters == <<processedCount, successCount, failedCount, successRate>>
obs == <<shown, logged>>
hist == <<pollerState, launchedSids, completedSids>>
vars == <<ctl, net, buttons, sections, selects, progressFill, progressText, counters,
          resultsLog, obs, hist>>

\* --------------------------------------------------------------- pure parts
\* What the page markup holds in an element the script has not written yet.
Markup == <<>>

Min(S) == CHOOSE x \in S : \A y \in S : x <= y

RECURSIVE SumOver(_, _)
SumOver(f, S) == IF S = {} THEN 0
                 ELSE LET x == CHOOSE y \in S : TRUE IN f[x] + SumOver(f, S \ {x})

\* Requests of every kind now in flight.
InFlight == uploadPending + SumOver(processPending, Sessions)
            + stopPending + SumOver(statusPending, Sessions)

\* File names are sequences of characters.
FileNames == { <<"a", ".", "c", "s", "v">>,
               <<"A", ".", "C", "s", "V">>,
               <<"a", ".", "t", "x", "t">>,
               <<"a", ".", "c", "s", "v", ".", "t", "x", "t">> }

\* String.prototype.toLowerCase on one character of the alphabet used here.
LowerChar(c) == CASE c = "A" -> "a" [] c = "C" -> "c" [] c = "S" -> "s"
                  [] c = "V" -> "v" [] c = "T" -> "t" [] c = "X" -> "x"
                  [] OTHER -> c

ToLowerCase(s) == [i \in 1..Len(s) |-> LowerChar(s[i])]

EndsWith(s, suffix) ==
    /\ Len(suffix) <= Len(s)
    /\ SubSeq(s, Len(s) - Len(suffix) + 1, Len(s)) = suffix

DotCsv == <<".", "c", "s", "v">>

AcceptsFile_CaseSensitive(file) == EndsWith(file, DotCsv)

\* file.name.toLowerCase().endsWith('.csv')
AcceptsFile(file) == EndsWith(ToLowerCase(file), DotCsv)

\* Header lists an upload may return.  The selects default to the first
\* column, the zip select matches "ZIP", and the unnamed third column is the
\* option whose value is empty.
HeaderLists == { <<"Addr", "ZIP", "">> }

\* h.toLowerCase() on the headers used here.
LowerHeader(h) == CASE h = "ZIP" -> "zip" [] h = "Addr" -> "addr" [] OTHER -> h

patterns == [address |-> <<"address", "street", "property address", "property_address">>,
             city    |-> <<"city", "town", "municipality">>,
             state   |-> <<"state", "st", "province">>,
             zip     |-> <<"zip", "zipcode", "zip code", "postal", "postal code">>]

\* Array.prototype.indexOf, 1-based; 0 stands for -1.
IndexOf(seq, x) == IF \E i \in 1..Len(seq) : seq[i] = x
                   THEN Min({i \in 1..Len(seq) : seq[i] = x})
                   ELSE 0

\* The value of a select right after its options were rebuilt: the first
\* option of a single select is selected, and an empty select has value "".
FirstOption(headers) == IF Len(headers) = 0 THEN "" ELSE headers[1]

\* autoSelectColumns for one field: the first pattern found among the
\* lower-cased headers selects the header at that index.
autoSelectColumns(type, headers) ==
    LET headersLower == [i \in 1..Len(headers) |-> LowerHeader(headers[i])]
        patternList == patterns[type]
        hits == {k \in 1..Len(patternList) : IndexOf(headersLower, patternList[k]) # 0}
    IN IF hits = {} THEN FirstOption(headers)
       ELSE headers[IndexOf(headersLower, patternList[Min(hits)])]

\* The four column bindings of processFile's config are all truthy.
MappingComplete ==
    addressColumn # "" /\ cityColumn # "" /\ stateColumn # "" /\ zipColumn # ""

\* Log entry i of session s, as the server reports it.
ServerLog(s, n) == [i \in 1..n |-> <<s, i>>]

\* Status bodies the server may answer for session s.  Numbers are present as
\* the interface promises; current_address is optional ("" when absent).
Snapshots(s) ==
    { [progress_percent |-> b.p, current_address |-> b.a, total_processed |-> b.t,
       successful_geocodes |-> b.sg, failed_geocodes |-> b.fg,
       processing_complete |-> c, results_log |-> ServerLog(s, b.n)] :
      b \in { [p |-> 0, a |-> "", t |-> 0, sg |-> 0, fg |-> 0, n |-> 0],
              [p |-> 33, a |-> "12 Oak St", t |-> 3, sg |-> 2, fg |-> 1,
               n |-> LogCap + MaxLogOver] },
      c \in BOOLEAN }

NoSnapshot == [progress_percent |-> 0, current_address |-> "", total_processed |-> 0,
               successful_geocodes |-> 0, failed_geocodes |-> 0,
               processing_complete |-> FALSE, results_log |-> <<>>]

\* x || 0
OrZero(x) == IF x = 0 THEN 0 ELSE x

\* Math.round(x / y * 100) for x >= 0, y > 0: halves round up.
RoundPercent(x, y) == (200 * x + y) \div (2 * y)

Slice_Head(logEntries) ==
    IF Len(logEntries) <= LogCap THEN logEntries ELSE SubSeq(logEntries, 1, LogCap)

\* logEntries.slice(-50)
Slice(logEntries) ==
    IF Len(logEntries) <= LogCap THEN logEntries
    ELSE SubSeq(logEntries, Len(logEntries) - LogCap + 1, Len(logEntries))

\* What a fetch followed by response.json() can produce: a transport error
\* (net = FALSE), or a response with its ok flag, whether its body parses as
\* JSON, and the error field of a parsed failure body ("" when absent).
Responses ==
    { [net |-> FALSE, ok |-> FALSE, parses |-> FALSE, error |-> ""] } \cup
    { r \in [net : {TRUE}, ok : BOOLEAN, parses : BOOLEAN, error : {"", "server message"}] :
        r.error # "" => (r.parses /\ ~r.ok) }

\* await fetch(...); await response.json() throws into the catch block.
Throws(r) == ~r.net \/ ~r.parses

\* The branch a handler takes on the outcome r of its request: "catch", the
\* response.ok branch "ok", or the else branch "non2xx".  stopProcessing does
\* not read the body, so only a transport error reaches its catch block.
UploadBranch_IgnoresOk(r) == IF Throws(r) THEN "catch" ELSE "ok"

UploadBranch(r) == IF Throws(r) THEN "catch" ELSE IF r.ok THEN "ok" ELSE "non2xx"

ProcessBranch_IgnoresOk(r) == IF Throws(r) THEN "catch" ELSE "ok"

ProcessBranch(r) == IF Throws(r) THEN "catch" ELSE IF r.ok THEN "ok" ELSE "non2xx"

StopBranch_IgnoresOk(r) == IF ~r.net THEN "catch" ELSE "ok"

StopBranch(r) == IF ~r.net THEN "catch" ELSE IF r.ok THEN "ok" ELSE "non2xx"

StatusBranch_IgnoresOk(r) == IF Throws(r) THEN "catch" ELSE "ok"

StatusBranch(r) == IF Throws(r) THEN "catch" ELSE IF r.ok THEN "ok" ELSE "non2xx"

\* ------------------------------------------------------------ display parts
\* updateProgressDisplay: the bar, the text, the three counts and the rate.
DisplayFill_NeverLower(status) ==
    IF progressFill # Markup /\ progressFill[1] > OrZero(status.progress_percent)
    THEN progressFill
    ELSE <<OrZero(status.progress_percent), "%">>

DisplayFill(status) == <<OrZero(status.progress_percent), "%">>

DisplayText(status) ==
    IF status.current_address # ""
    THEN <<"Processing: ", status.current_address>>
    ELSE <<"Progress: ", OrZero(status.progress_percent), "%">>

DisplayRate(status) ==
    LET total == OrZero(status.successful_geocodes) + OrZero(status.failed_geocodes)
    IN <<IF total > 0 THEN RoundPercent(status.successful_geocodes, total) ELSE 0, "%">>

updateProgressDisplay(status) ==
    /\ processedCount' = <<OrZero(status.total_processed)>>
    /\ successCount' = <<OrZero(status.successful_geocodes)>>
    /\ failedCount' = <<OrZero(status.failed_geocodes)>>
    /\ successRate' = DisplayRate(status)

\* updateResultsLog: an empty log leaves the rendered log alone, any other
\* log replaces it by its last LogCap entries.
updateResultsLog(logEntries) ==
    resultsLog' = IF Len(logEntries) = 0 THEN resultsLog ELSE Slice(logEntries)

\* hideLoading
hideLoading ==
    progressSection' = IF ~isProcessing THEN "none" ELSE progressSection

\* clearInterval(processingInterval): a null or already cleared handle is ignored.
ClearInterval == liveTimers \ {processingInterval}

Inc(f, s) == [f EXCEPT ![s] = @ + 1]
Dec(f, s) == [f EXCEPT ![s] = @ - 1]

Observe(alert, console) ==
    /\ shown' = alert
    /\ logged' = console

\* -------------------------------------------------------------------- Init
Init ==
    /\ currentSessionId = NoSession
    /\ processingInterval = NoTimer
    /\ isProcessing = FALSE
    /\ liveTimers = {}
    /\ sessionsIssued = 0
    /\ uploadPending = 0
    /\ processPending = [s \in Sessions |-> 0]
    /\ stopPending = 0
    /\ statusPending = [s \in Sessions |-> 0]
    /\ processBtn = ""
    /\ stopBtn = ""
    /\ configSection = ""
    /\ progressSection = ""
    /\ resultsSection = ""
    /\ downloadSection = ""
    /\ uploadAreaText = Markup
    /\ columnOptions = <<>>
    /\ addressColumn = ""
    /\ cityColumn = ""
    /\ stateColumn = ""
    /\ zipColumn = ""
    /\ progressFill = Markup
    /\ progressText = Markup
    /\ processedCount = Markup
    /\ successCount = Markup
    /\ failedCount = Markup
    /\ successRate = Markup
    /\ resultsLog = <<>>
    /\ shown = "none"
    /\ logged = FALSE
    /\ pollerState = "Idle"
    /\ launchedSids = {}
    /\ completedSids = {}

\* ---------------------------------------------------------------- handlers
\* handleFileUpload up to its first await.
handleFileUpload(file) ==
    /\ IF ~AcceptsFile(file)
       THEN /\ Observe("Please select a CSV file.", FALSE)
            /\ UNCHANGED <<uploadPending, progressText, progressSection>>
       ELSE /\ InFlight < MaxInFlight
            /\ progressText' = <<"loading", "Uploading file...">>
            /\ progressSection' = "block"
            /\ uploadPending' = uploadPending + 1
            /\ Observe("none", FALSE)
    /\ UNCHANGED <<ctl, sessionsIssued, processPending, stopPending, statusPending,
                   buttons, configSection, resultsSection, downloadSection, selects,
                   progressFill, counters, resultsLog, hist>>

\* populateColumnSelects and showConfigSection, on a 2xx upload body.
populateColumnSelects(headers) ==
    /\ columnOptions' = headers
    /\ addressColumn' = autoSelectColumns("address", headers)
    /\ cityColumn' = autoSelectColumns("city", headers)
    /\ stateColumn' = autoSelectColumns("state", headers)
    /\ zipColumn' = autoSelectColumns("zip", headers)

\* handleFileUpload from the response of /upload on.
UploadResponse(r) ==
    /\ uploadPending > 0
    /\ uploadPending' = uploadPending - 1
    /\ hideLoading
    /\ IF UploadBranch(r) = "catch"
       THEN /\ Observe("Upload failed: message", FALSE)
            /\ UNCHANGED <<currentSessionId, sessionsIssued, selects, configSection>>
       ELSE IF UploadBranch(r) = "ok"
       THEN /\ sessionsIssued + 1 \in Sessions
            /\ sessionsIssued' = sessionsIssued + 1
            /\ currentSessionId' = sessionsIssued + 1
            /\ \E headers \in HeaderLists : populateColumnSelects(headers)
            /\ uploadAreaText' = <<"Selected: ", "filename">>
            /\ configSection' = "block"
            /\ Observe("none", FALSE)
       ELSE /\ Observe(IF r.error # "" THEN r.error ELSE "Upload failed", FALSE)
            /\ UNCHANGED <<currentSessionId, sessionsIssued, selects, configSection>>
    /\ UNCHANGED <<processingInterval, isProcessing, liveTimers,
                   processPending, stopPending, statusPending, buttons, resultsSection,
                   downloadSection, progressFill, progressText, counters, resultsLog,
                   hist>>

\* The user picks another option in one of the four column selects.
SelectColumn(which, header) ==
    /\ \E i \in 1..Len(columnOptions) : columnOptions[i] = header
    /\ addressColumn' = IF which = "address" THEN header ELSE addressColumn
    /\ cityColumn' = IF which = "city" THEN header ELSE cityColumn
    /\ stateColumn' = IF which = "state" THEN header ELSE stateColumn
    /\ zipColumn' = IF which = "zip" THEN header ELSE zipColumn
    /\ <<addressColumn', cityColumn', stateColumn', zipColumn'>>
         # <<addressColumn, cityColumn, stateColumn, zipColumn>>
    /\ Observe("none", FALSE)
    /\ UNCHANGED <<ctl, net, buttons, sections, uploadAreaText, columnOptions,
                   progressFill, progressText, counters, resultsLog, hist>>

\* processFile up to its await.  The click reaches the handler only while the
\* button is displayed.
processFile ==
    /\ processBtn # "none"
    /\ IF currentSessionId = NoSession
       THEN /\ Observe("No file uploaded", FALSE)
            /\ UNCHANGED processPending
       ELSE IF ~MappingComplete
       THEN /\ Observe("Please select all column mappings", FALSE)
            /\ UNCHANGED processPending
       ELSE /\ InFlight < MaxInFlight
            /\ processPending' = Inc(processPending, currentSessionId)
            /\ Observe("none", FALSE)
    /\ UNCHANGED <<ctl, sessionsIssued, uploadPending, stopPending, statusPending,
                   buttons, sections, selects, progressFill, progressText, counters,
                   resultsLog, hist>>

\* The handle setInterval returns: an integer that names no live timer.
NewHandle == Min(Timers \ liveTimers)

startProcessing_NoTimer ==
    /\ liveTimers # Timers
    /\ isProcessing' = TRUE
    /\ processBtn' = "none"
    /\ stopBtn' = "inline-block"
    /\ progressSection' = "block"
    /\ resultsSection' = "block"
    /\ processingInterval' = NewHandle
    /\ liveTimers' = liveTimers
    /\ pollerState' = "Running"

\* startProcessing
startProcessing ==
    /\ liveTimers # Timers
    /\ isProcessing' = TRUE
    /\ processBtn' = "none"
    /\ stopBtn' = "inline-block"
    /\ progressSection' = "block"
    /\ resultsSection' = "block"
    /\ processingInterval' = NewHandle
    /\ liveTimers' = liveTimers \cup {NewHandle}
    /\ pollerState' = "Running"

\* processFile from the response of /process on.
ProcessResponse(s, r) ==
    /\ processPending[s] > 0
    /\ processPending' = Dec(processPending, s)
    /\ IF ProcessBranch(r) = "catch"
       THEN /\ Observe("Processing failed: message", FALSE)
            /\ UNCHANGED <<isProcessing, processingInterval, liveTimers,
                           buttons, progressSection, resultsSection, hist>>
       ELSE IF ProcessBranch(r) = "ok"
       THEN /\ startProcessing
            /\ launchedSids' = launchedSids \cup {s}
            /\ Observe("none", FALSE)
            /\ UNCHANGED completedSids
       ELSE /\ Observe(IF r.error # "" THEN r.error ELSE "Processing failed to start", FALSE)
            /\ UNCHANGED <<isProcessing, processingInterval, liveTimers,
                           buttons, progressSection, resultsSection, hist>>
    /\ UNCHANGED <<currentSessionId, sessionsIssued, uploadPending, stopPending,
                   statusPending, configSection, downloadSection, selects, progressFill,
                   progressText, counters, resultsLog>>

\* stopProcessing up to its await.  The click reaches the handler only while
\* the stop button is displayed.
stopProcessing ==
    /\ stopBtn # "none"
    /\ IF currentSessionId = NoSession
       THEN /\ Observe("none", FALSE)
            /\ UNCHANGED stopPending
       ELSE /\ InFlight < MaxInFlight
            /\ stopPending' = stopPending + 1
            /\ Observe("none", FALSE)
    /\ UNCHANGED <<ctl, sessionsIssued, uploadPending, processPending, statusPending,
                   buttons, sections, selects, progressFill, progressText, counters,
                   resultsLog, hist>>

\* stopProcessing from the response of /stop on.  The body is not read.
StopResponse(r) ==
    /\ stopPending > 0
    /\ stopPending' = stopPending - 1
    /\ IF StopBranch(r) = "catch"
       THEN /\ Observe("Failed to stop processing: message", FALSE)
            /\ UNCHANGED <<liveTimers, isProcessing, buttons, progressText, pollerState>>
       ELSE IF StopBranch(r) = "ok"
       THEN /\ liveTimers' = ClearInterval
            /\ isProcessing' = FALSE
            /\ processBtn' = "inline-block"
            /\ stopBtn' = "none"
            /\ progressText' = <<"Processing stopped by user">>
            /\ pollerState' = "Stopped"
            /\ Observe("none", FALSE)
       ELSE /\ Observe("none", FALSE)
            /\ UNCHANGED <<liveTimers, isProcessing, buttons, progressText, pollerState>>
    /\ UNCHANGED <<currentSessionId, processingInterval, sessionsIssued,
                   uploadPending, processPending, statusPending, sections, selects,
                   progressFill, counters, resultsLog, launchedSids,
                   completedSids>>

updateProgress_NoRunningGuard ==
    /\ liveTimers # {}
    /\ IF currentSessionId = NoSession
       THEN /\ Observe("none", FALSE)
            /\ UNCHANGED statusPending
       ELSE /\ InFlight < MaxInFlight
            /\ statusPending' = Inc(statusPending, currentSessionId)
            /\ Observe("none", FALSE)
    /\ UNCHANGED <<ctl, sessionsIssued, uploadPending, processPending, stopPending,
                   buttons, sections, selects, progressFill, progressText, counters,
                   resultsLog, hist>>

\* updateProgress up to its await: one firing of a live interval timer.
updateProgress ==
    /\ liveTimers # {}
    /\ IF currentSessionId = NoSession \/ ~isProcessing
       THEN /\ Observe("none", FALSE)
            /\ UNCHANGED statusPending
       ELSE /\ InFlight < MaxInFlight
            /\ statusPending' = Inc(statusPending, currentSessionId)
            /\ Observe("none", FALSE)
    /\ UNCHANGED <<ctl, sessionsIssued, uploadPending, processPending, stopPending,
                   buttons, sections, selects, progressFill, progressText, counters,
                   resultsLog, hist>>

completeProcessing_NoClear ==
    /\ liveTimers' = liveTimers
    /\ isProcessing' = FALSE
    /\ processBtn' = "inline-block"
    /\ stopBtn' = "none"
    /\ progressText' = <<"Processing complete!">>
    /\ progressFill' = <<100, "%">>
    /\ downloadSection' = "block"
    /\ pollerState' = "Completed"

completeProcessing_KeepsFlag ==
    /\ liveTimers' = ClearInterval
    /\ isProcessing' = isProcessing
    /\ processBtn' = "inline-block"
    /\ stopBtn' = "none"
    /\ progressText' = <<"Processing complete!">>
    /\ progressFill' = <<100, "%">>
    /\ downloadSection' = "block"
    /\ pollerState' = "Completed"

\* completeProcessing, with showDownloadSection.
completeProcessing ==
    /\ liveTimers' = ClearInterval
    /\ isProcessing' = FALSE
    /\ processBtn' = "inline-block"
    /\ stopBtn' = "none"
    /\ progressText' = <<"Processing complete!">>
    /\ progressFill' = <<100, "%">>
    /\ downloadSection' = "block"
    /\ pollerState' = "Completed"

\* updateProgress from the response of /status on; status is the parsed body.
StatusResponse(s, r, status) ==
    /\ statusPending[s] > 0
    /\ statusPending' = Dec(statusPending, s)
    /\ IF StatusBranch(r) = "catch"
       THEN /\ Observe("none", TRUE)
            /\ UNCHANGED <<liveTimers, isProcessing, buttons, downloadSection, progressFill,
                           progressText, counters, resultsLog, pollerState, completedSids>>
       ELSE IF StatusBranch(r) = "ok"
       THEN /\ Observe("none", FALSE)
            /\ updateProgressDisplay(status)
            /\ updateResultsLog(status.results_log)
            /\ IF status.processing_complete
               THEN /\ completeProcessing
                    /\ completedSids' = completedSids \cup {s}
               ELSE /\ progressFill' = DisplayFill(status)
                    /\ progressText' = DisplayText(status)
                    /\ UNCHANGED <<liveTimers, isProcessing, buttons, downloadSection,
                                   pollerState, completedSids>>
       ELSE /\ Observe("none", FALSE)
            /\ UNCHANGED <<liveTimers, isProcessing, buttons, downloadSection, progressFill,
                           progressText, counters, resultsLog, pollerState, completedSids>>
    /\ UNCHANGED <<currentSessionId, processingInterval, sessionsIssued,
                   uploadPending, processPending, stopPending, configSection,
                   progressSection, resultsSection, selects, launchedSids>>

beforeunload_Never ==
    /\ Observe("none", FALSE)
    /\ UNCHANGED <<ctl, net, buttons, sections, selects, progressFill, progressText,
                   counters, resultsLog, hist>>

\* The beforeunload listener: while isProcessing it asks for confirmation; the
\* user stays on the page.
beforeunload ==
    /\ Observe(IF isProcessing
               THEN "Processing is still running. Are you sure you want to leave?"
               ELSE "none", FALSE)
    /\ UNCHANGED <<ctl, net, buttons, sections, selects, progressFill, progressText,
                   counters, resultsLog, hist>>

\* --------------------------------------------------------------------- Next
FileUploadStep == \E file \in FileNames : handleFileUpload(file)
UploadResponseStep ==
    \E r \in Responses :
        /\ UploadBranch(r) = "ok" => sessionsIssued < MaxSessions
        /\ UploadResponse(r)
SelectColumnStep ==
    \E which \in {"address", "city", "state", "zip"}, header \in {"Addr", "ZIP", ""} :
        SelectColumn(which, header)
ProcessResponseStep == \E s \in Sessions, r \in Responses : ProcessResponse(s, r)
\* A 2xx answer whose body parses.
Answer2xx == [net |-> TRUE, ok |-> TRUE, parses |-> TRUE, error |-> ""]

\* Of the answer to /stop only the transport outcome and the ok flag are read.
StopResponseStep == \E r \in {a \in Responses : a.parses = a.net /\ a.error = ""} : StopResponse(r)
\* A failure body of /status is parsed but none of its fields is read.
StatusResponseStep ==
    \E s \in {t \in Sessions : statusPending[t] > 0}, r \in {a \in Responses : a.error = ""} :
        \E status \in (IF r.net /\ r.parses /\ r.ok THEN Snapshots(s) ELSE {NoSnapshot}) :
            StatusResponse(s, r, status)

\* The controller with the column selects as populateColumnSelects left them.
\* The selects reach the controller only through processFile's validation, so
\* the launches, ticks, stops and completions of this specification are those
\* of the page; SpecMapping adds the user's own choices.
Next ==
    \/ FileUploadStep
    \/ UploadResponseStep
    \/ processFile
    \/ ProcessResponseStep
    \/ stopProcessing
    \/ StopResponseStep
    \/ updateProgress
    \/ StatusResponseStep
    \/ beforeunload

Spec == Init /\ [][Next]_vars

\* Upload, column mapping and launch, with the user changing the selects.
NextMapping ==
    \/ FileUploadStep
    \/ UploadResponseStep
    \/ SelectColumnStep
    \/ processFile
    \/ ProcessResponseStep

SpecMapping == Init /\ [][NextMapping]_vars

\* A page on which the user uploads again: every upload may be accepted, and
\* /process and /status are answered 2xx.
CsvUploadStep == \E file \in {f \in FileNames : AcceptsFile(f)} : handleFileUpload(file)
ReuploadResponseStep == \E r \in Responses : UploadResponse(r)
LaunchResponseStep == \E s \in Sessions : ProcessResponse(s, Answer2xx)
SnapshotStep ==
    \E s \in {t \in Sessions : statusPending[t] > 0} :
        \E status \in Snapshots(s) : StatusResponse(s, Answer2xx, status)

NextReupload ==
    \/ CsvUploadStep
    \/ ReuploadResponseStep
    \/ processFile
    \/ LaunchResponseStep
    \/ updateProgress
    \/ SnapshotStep

SpecReupload == Init /\ [][NextReupload]_vars

\* A page on which nobody clicks stop.  The interval timer keeps firing while
\* it is live, every request is answered, and the server reports completion
\* to a poll again and again until one such answer is delivered.
TickFetch == updateProgress /\ statusPending' # statusPending
CompletingSnapshot ==
    \E s \in {t \in Sessions : statusPending[t] > 0} :
        \E status \in {x \in Snapshots(s) : x.processing_complete} :
            StatusResponse(s, Answer2xx, status)

NextLive ==
    \/ CsvUploadStep
    \/ UploadResponseStep
    \/ processFile
    \/ LaunchResponseStep
    \/ updateProgress
    \/ StatusResponseStep

SpecLive ==
    /\ Init /\ [][NextLive]_vars
    /\ WF_vars(UploadResponseStep) /\ WF_vars(LaunchResponseStep)
    /\ SF_vars(TickFetch) /\ SF_vars(CompletingSnapshot)

\* updateResultsLog on its own, applied to logs of every length up to the cap
\* and beyond.
Logs == { ServerLog(s, n) : s \in Sessions, n \in 0..(LogCap + MaxLogOver) }

RenderLogStep ==
    \E logEntries \in Logs :
        /\ updateResultsLog(logEntries)
        /\ Observe("none", FALSE)
        /\ UNCHANGED <<ctl, net, buttons, sections, selects, progressFill, progressText,
                       counters, hist>>

NextLog == RenderLogStep

SpecLog == Init /\ [][NextLog]_vars

\* ------------------------------------------------------------------- claims
Terminal == {"Stopped", "Completed"}

\* A response that is not a 2xx answer: a transport error or a non-2xx status.
Failed(r) == ~r.net \/ ~r.ok

\* C1: in every reachable state at most one recurring poll timer created by
\* startProcessing is live.
C1_AtMostOneLiveTimer == Cardinality(liveTimers) <= 1

\* C2: once a stop has been answered 2xx, no later step (a late /status
\* response in particular) completes the session or reveals the download; only
\* a new successful launch leaves Stopped.
C2_StoppedIsFinal ==
    [][pollerState = "Stopped" =>
          \/ pollerState' = "Running"
          \/ pollerState' = "Stopped" /\ downloadSection' = downloadSection]_vars

\* C3: in a terminal state (Completed or Stopped) no recurring poll timer is
\* live.
C3_TerminalClearsTimers == pollerState \in Terminal => liveTimers = {}

\* Everything a handler can change, the output of the last step aside.
program == <<ctl, net, buttons, sections, selects, progressFill, progressText, counters,
             resultsLog, hist>>

\* C4: a tick that fires while isProcessing is false or no session id exists
\* issues no /status fetch and changes nothing; and while the session is
\* Stopped or Completed no step issues a /status fetch.
C4_IdleTickIsNoOp ==
    [][ /\ (updateProgress /\ (~isProcessing \/ currentSessionId = NoSession))
              => UNCHANGED program /\ shown' = "none" /\ ~logged'
        /\ pollerState \in Terminal
              => \A s \in Sessions : statusPending'[s] <= statusPending[s] ]_vars

\* C4 witness: the session is terminal and a timer that can still fire is live.
C4_Witness == pollerState \in Terminal /\ ~isProcessing /\ liveTimers # {}

\* C5: the click on stop, and a /stop request that fails (transport error or
\* non-2xx), leave isProcessing, the timers, the buttons and the poller state
\* as they were; a /stop step that clears a timer or resets isProcessing is
\* the continuation of a 2xx answer.
C5_StopIsConfirmed ==
    [][ /\ (stopProcessing \/ \E r \in Responses : Failed(r) /\ StopResponse(r))
              => UNCHANGED <<isProcessing, liveTimers, processingInterval, buttons,
                             progressText, pollerState>>
        /\ ((liveTimers' # liveTimers \/ isProcessing' # isProcessing)
               /\ \E r \in Responses : StopResponse(r))
              => (\E r \in Responses : r.net /\ r.ok /\ StopResponse(r)) ]_vars

\* C5 witness: a stop failed at transport level and polling is still on.
C5_Witness ==
    /\ shown = "Failed to stop processing: message"
    /\ isProcessing
    /\ processingInterval \in liveTimers
    /\ pollerState = "Running"

\* C6: every failed /stop request (non-2xx or transport error) ends with an
\* error shown to the user.
C6_StopFailureShown ==
    [][(\E r \in Responses : Failed(r) /\ StopResponse(r)) => shown' # "none"]_vars

\* C7: a failed status poll (transport error, unparsable body or non-2xx)
\* changes neither the session, isProcessing, the timers nor the display, and
\* shows no error.
C7_FailedPollChangesNothing ==
    [][(\E s \in Sessions, r \in Responses :
            (Throws(r) \/ ~r.ok) /\ StatusResponse(s, r, NoSnapshot))
         => /\ UNCHANGED <<ctl, buttons, sections, selects, progressFill, progressText,
                           counters, resultsLog, hist>>
            /\ shown' = "none"]_vars

\* C7 witness: a poll failed into the catch block and polling is still on.
C7_Witness == logged /\ isProcessing /\ processingInterval \in liveTimers

\* C8: isProcessing becomes true and a timer is created only in the
\* continuation of a /process request answered 2xx; a /process request that
\* fails (non-2xx or transport error) leaves the session id, isProcessing, the
\* timers and the poller state as they were and shows an error.
C8_PollingOnlyAfterLaunch ==
    [][ /\ ((isProcessing' /\ ~isProcessing) \/ ~(liveTimers' \subseteq liveTimers))
              => \E s \in Sessions, r \in Responses : r.net /\ r.ok /\ ProcessResponse(s, r)
        /\ (\E s \in Sessions, r \in Responses : Failed(r) /\ ProcessResponse(s, r))
              => /\ UNCHANGED <<ctl, buttons, sections, hist>>
                 /\ shown' # "none" ]_vars

\* C8 witness: a launch failed before any launch succeeded; nothing polls.
C8_Witness ==
    /\ shown \in {"Processing failed: message", "Processing failed to start"}
    /\ currentSessionId # NoSession
    /\ ~isProcessing
    /\ liveTimers = {}
    /\ pollerState = "Idle"

\* The rate for the counts of a snapshot, from the counts alone.
ExpectedRate(sg, fg) ==
    IF sg + fg = 0 THEN 0
    ELSE CHOOSE n \in 0..100 : 2 * 100 * sg - (sg + fg) < 2 * n * (sg + fg)
                               /\ 2 * n * (sg + fg) <= 2 * 100 * sg + (sg + fg)

\* C9: the continuation of a 2xx /status answer with processing_complete set
\* applies the snapshot (counts, rate, log window), clears the timer held in
\* processingInterval (which is the live timer when the session is running
\* with one timer), resets isProcessing, restores the start button, hides
\* the stop button and shows the download section; and the download section
\* is shown only after such an answer was received.
C9_CompletionTransition ==
    [][ /\ \A s \in {t \in Sessions : statusPending'[t] < statusPending[t]} :
           \A status \in Snapshots(s) :
              (status.processing_complete /\ StatusResponse(s, Answer2xx, status))
              => /\ processedCount' = <<status.total_processed>>
                 /\ successCount' = <<status.successful_geocodes>>
                 /\ failedCount' = <<status.failed_geocodes>>
                 /\ successRate' = <<ExpectedRate(status.successful_geocodes,
                                                  status.failed_geocodes), "%">>
                 /\ Len(status.results_log) > 0 =>
                       /\ Len(resultsLog') <= LogCap
                       /\ resultsLog'[Len(resultsLog')]
                            = status.results_log[Len(status.results_log)]
                 /\ processingInterval \notin liveTimers'
                 /\ (isProcessing /\ Cardinality(liveTimers) = 1) => liveTimers' = {}
                 /\ ~isProcessing'
                 /\ processBtn' = "inline-block"
                 /\ stopBtn' = "none"
                 /\ downloadSection' = "block"
                 /\ progressFill' = <<100, "%">>
                 /\ pollerState' = "Completed"
        /\ downloadSection' = "block" => completedSids' # {} ]_vars

\* C9 witness: a completing snapshot with counts 3/2/1 was applied while the
\* timer was live, and the download section is shown.
C9_Witness ==
    /\ pollerState = "Completed"
    /\ downloadSection = "block"
    /\ processedCount = <<3>>
    /\ successRate = <<67, "%">>
    /\ processingInterval # NoTimer
    /\ liveTimers = {}
    /\ ~isProcessing

\* File names that end in ".csv" when case is ignored.
CsvNames == { <<"a", ".", "c", "s", "v">>, <<"A", ".", "C", "s", "V">> }

\* C10: handleFileUpload sends /upload iff the name ends in ".csv" ignoring
\* case, processFile sends /process iff a session id exists and the four
\* bindings are non-empty; a rejected call shows an error, sends nothing and
\* changes no state.
C10_ValidationIsLocal ==
    [][ /\ \A file \in FileNames : handleFileUpload(file)
              => /\ (uploadPending' = uploadPending + 1) <=> (file \in CsvNames)
                 /\ file \notin CsvNames => UNCHANGED program /\ shown' # "none"
        /\ processFile
              => LET valid == /\ currentSessionId # NoSession
                              /\ \A v \in {addressColumn, cityColumn, stateColumn, zipColumn} :
                                    v # ""
                 IN /\ (processPending' # processPending) <=> valid
                    /\ ~valid => UNCHANGED program /\ shown' # "none" ]_vars

\* C10 witness: a launch with three of the four columns bound was rejected
\* locally.
C10_Witness ==
    /\ shown = "Please select all column mappings"
    /\ currentSessionId # NoSession
    /\ addressColumn # "" /\ cityColumn # "" /\ stateColumn # ""
    /\ zipColumn = ""
    /\ InFlight = 0

\* C11: the continuation of a 2xx upload answer makes the id of that answer
\* the current session id, whatever the session and its state were before;
\* the continuation of a failed upload (transport error, unparsable body or
\* non-2xx) leaves the session id as it was and shows an error.
C11_UploadReplacesSession ==
    [][ uploadPending' < uploadPending =>
          /\ UploadResponse(Answer2xx)
                => /\ currentSessionId' = sessionsIssued'
                   /\ currentSessionId' # currentSessionId
                   /\ currentSessionId' \notin launchedSids \cup completedSids
          /\ (\E r \in Responses : (Throws(r) \/ ~r.ok) /\ UploadResponse(r))
                => /\ currentSessionId' = currentSessionId
                   /\ sessionsIssued' = sessionsIssued
                   /\ shown' # "none" ]_vars

\* C11 witness: an upload was accepted while the earlier session was being
\* polled, and the new id is the current one.
C11_Witness ==
    /\ currentSessionId = 2
    /\ launchedSids = {1}
    /\ pollerState = "Running"
    /\ isProcessing

\* C12: updateResultsLog applied to a non-empty log L renders exactly
\* min(LogCap, |L|) entries, the last ones of L in their order; and the
\* rendered log never holds more than LogCap entries.
C12_LogWindow ==
    /\ [](Len(resultsLog) <= LogCap)
    /\ [][ \A L \in Logs :
              (Len(L) > 0 /\ updateResultsLog(L))
              => LET k == IF Len(L) < LogCap THEN Len(L) ELSE LogCap
                 IN /\ Len(resultsLog') = k
                    /\ \A i \in 1..k : resultsLog'[i] = L[Len(L) - k + i] ]_vars

\* C12 witness: a log longer than the cap is rendered from its entry
\* MaxLogOver + 1 to its last.
C12_Witness ==
    /\ Len(resultsLog) = LogCap
    /\ resultsLog[1] = <<1, MaxLogOver + 1>>
    /\ resultsLog[LogCap] = <<1, LogCap + MaxLogOver>>

\* C13: whenever processFile sends a /process request, the four bindings are
\* pairwise distinct headers of the list the upload returned.
C13_MappingDistinct ==
    [][ (processFile /\ processPending' # processPending)
          => /\ Cardinality({addressColumn, cityColumn, stateColumn, zipColumn}) = 4
             /\ \A v \in {addressColumn, cityColumn, stateColumn, zipColumn} :
                   \E i \in 1..Len(columnOptions) : columnOptions[i] = v ]_vars

\* C14: a beforeunload event asks for confirmation iff isProcessing is true,
\* and isProcessing is true exactly from a successful launch until a
\* completing snapshot or a 2xx stop: also while a stop request is pending or
\* has failed, and not in Completed or Stopped.
C14_UnloadGuard ==
    /\ [](isProcessing <=> pollerState = "Running")
    /\ [][ beforeunload
              => /\ (shown' # "none") <=> isProcessing
                 /\ UNCHANGED program ]_vars

\* C14 witness: leaving was intercepted while a stop request was pending.
C14_Witness ==
    /\ shown = "Processing is still running. Are you sure you want to leave?"
    /\ stopPending > 0
    /\ isProcessing

\* C15: after every 2xx snapshot is applied, the rendered log is the last at
\* most LogCap entries of that snapshot's log and nothing else, also when that
\* log is empty.
C15_LogReplaced ==
    [][ \A s \in {t \in Sessions : statusPending'[t] < statusPending[t]} :
          \A status \in Snapshots(s) :
             StatusResponse(s, Answer2xx, status)
             => LET L == status.results_log
                    k == IF Len(L) < LogCap THEN Len(L) ELSE LogCap
                IN resultsLog' = SubSeq(L, Len(L) - k + 1, Len(L)) ]_vars

\* C16: a tick issues its /status fetch whether or not an earlier fetch is
\* pending; every 2xx snapshot is applied when its fetch completes, whatever
\* is still pending and whatever is displayed: the counts and the rate become
\* those of the snapshot, and the bar its percentage (100% when it completes
\* the session); and nothing but a 2xx snapshot changes the bar or the counts.
C16_AppliedInCompletionOrder ==
    [][ /\ (isProcessing /\ currentSessionId # NoSession /\ isProcessing'
               /\ updateProgress)
              => statusPending'[currentSessionId] = statusPending[currentSessionId] + 1
        /\ \A s \in {t \in Sessions : statusPending'[t] < statusPending[t]} :
              \A status \in Snapshots(s) :
                 StatusResponse(s, Answer2xx, status)
                 => /\ processedCount' = <<status.total_processed>>
                    /\ successCount' = <<status.successful_geocodes>>
                    /\ failedCount' = <<status.failed_geocodes>>
                    /\ progressFill' = <<IF status.processing_complete THEN 100
                                         ELSE status.progress_percent, "%">>
        /\ <<progressFill, counters>>' # <<progressFill, counters>>
              => \E s \in {t \in Sessions : statusPending'[t] < statusPending[t]} :
                    \E status \in Snapshots(s) : StatusResponse(s, Answer2xx, status) ]_vars

\* C16 witness: the bar shows 0% although the rendered log proves that the
\* snapshot with 33% was displayed before, and two fetches of the running
\* session are pending at once.
C16_Witness ==
    /\ progressFill = <<0, "%">>
    /\ processedCount = <<0>>
    /\ Len(resultsLog) > 0
    /\ isProcessing
    /\ statusPending[currentSessionId] = 2

\* C17: a 2xx snapshot with processing_complete = false leaves isProcessing,
\* the timers and the poller state as they were, so a running session keeps
\* its timer; and when ticks are fair, no stop is requested and the server
\* eventually reports completion, a running session is eventually Completed
\* with isProcessing false and its timer cleared.
C17_PollsUntilComplete ==
    /\ [][ \A s \in {t \in Sessions : statusPending'[t] < statusPending[t]} :
              \A status \in Snapshots(s) :
                 (~status.processing_complete /\ StatusResponse(s, Answer2xx, status))
                 => /\ UNCHANGED <<isProcessing, liveTimers, processingInterval, pollerState>>
                    /\ isProcessing => processingInterval \in liveTimers' ]_vars
    /\ isProcessing ~> (/\ pollerState = "Completed"
                        /\ ~isProcessing
                        /\ processingInterval \notin liveTimers)

\* C17 witness: a snapshot that does not complete was applied, the session is
\* still running on its timer and the next poll is under way.
C17_Witness ==
    /\ progressFill = <<33, "%">>
    /\ pollerState = "Running"
    /\ isProcessing
    /\ processingInterval \in liveTimers
    /\ statusPending[currentSessionId] > 0

\* C18: every /status fetch a tick issues targets a session id whose /process
\* launch was answered 2xx.
C18_PollsLaunchedSession ==
    [][ \A s \in Sessions :
          statusPending'[s] > statusPending[s] => s \in launchedSids ]_vars

\* C19: whenever the download section is visible, the current session id,
\* which the download button reads when clicked, is the id of a session for
\* which a completing snapshot was received.
C19_DownloadIsCompleted ==
    downloadSection = "block" => currentSessionId \in completedSids

\* C20: in every reachable state, isProcessing implies that a recurring poll
\* timer is live.
C20_ProcessingHasTimer == isProcessing => liveTimers # {}

\* C20 witness: the session runs again after a completion, while a stop
\* request and a status fetch are pending.
C20_Witness ==
    /\ isProcessing
    /\ completedSids # {}
    /\ stopPending > 0
    /\ statusPending[currentSessionId] > 0
    /\ liveTimers # {}

====
